---- MODULE Spec2Model ----
(***************************************************************************)
(* Model of tilelive-redis (src/index.js): the caching decorator           *)
(* cachingGet(namespace, options, get) with its two strategies,            *)
(* readthrough and race, the encode/decode codec and the high-water guard  *)
(* on the redis client's command queue.                                    *)
(*                                                                         *)
(* JavaScript values are records [t |-> type, v |-> sequence of 1-char     *)
(* strings].  Every callback of the program is one atomic action, as the   *)
(* program runs on a single-threaded event loop.                           *)
(***************************************************************************)
EXTENDS Integers, Sequences, FiniteSets, TLC

\* ------------------------------------------------------------------ bounds
NumInv == 2          \* invocations of the decorated get that may overlap
MaxHighWater == 2    \* largest command_queue_high_water tried
MaxLen == 2          \* longest payload handed to encode on its own

\* ------------------------------------------------------- program constants
DefaultExpires == 300
FallbackExpires == 300
Namespace == "TL"
Url == "http://a.com/x"

\* ------------------------------------------------------------- JS values
Null == [t |-> "null", v |-> <<>>]
Undefined == [t |-> "undefined", v |-> <<>>]
Throw == [t |-> "throw", v |-> <<>>]
Str(s) == [t |-> "string", v |-> s]
Buf(b) == [t |-> "buffer", v |-> b]
Obj(a) == [t |-> "object", v |-> a]
\* an Error object: v = <<status, code, redis, message>>, "" for an unset field
Err(status, code, redis, message) == [t |-> "error", v |-> <<status, code, redis, message>>]

\* JavaScript truthiness of a value
Truthy(x) ==
    CASE x.t \in {"null", "undefined"} -> FALSE
      [] x.t = "string" -> x.v # <<>>
      [] OTHER -> TRUE

\* x || y
OrElse(x, y) == IF Truthy(x) THEN x ELSE y

Digits == {"0", "1", "2", "3", "4", "5", "6", "7", "8", "9"}

\* JSON.stringify of an array of one-digit numbers: [] -> "[]", [1,2] -> "[1,2]"
RECURSIVE JoinComma(_)
JoinComma(a) ==
    IF a = <<>> THEN <<>>
    ELSE IF Len(a) = 1 THEN <<a[1]>>
    ELSE <<a[1], ",">> \o JoinComma(Tail(a))

JSONStringify(o) == <<"[">> \o JoinComma(o.v) \o <<"]">>

\* JSON.parse: the arrays JSONStringify writes, the literal null, else a SyntaxError
JSONParse(text) ==
    IF text = <<"n", "u", "l", "l">> THEN Null
    ELSE IF Len(text) >= 2 /\ text[1] = "[" /\ text[Len(text)] = "]"
         THEN LET inner == SubSeq(text, 2, Len(text) - 1)
              IN IF inner = <<>> THEN Obj(<<>>)
                 ELSE IF /\ Len(inner) % 2 = 1
                         /\ \A k \in 1..Len(inner) :
                              IF k % 2 = 1 THEN inner[k] \in Digits ELSE inner[k] = ","
                      THEN Obj([k \in 1..((Len(inner) + 1) \div 2) |-> inner[2 * k - 1]])
                      ELSE Throw
         ELSE Throw

\* ------------------------------------------------------------------ codec
errcode(err) ==
    IF ~Truthy(err) THEN Undefined
    ELSE IF err.v[1] = "404" THEN Str(<<"4", "0", "4">>)
    ELSE IF err.v[1] = "403" THEN Str(<<"4", "0", "3">>)
    ELSE IF err.v[2] = "404" THEN Str(<<"4", "0", "4">>)
    ELSE IF err.v[2] = "403" THEN Str(<<"4", "0", "3">>)
    ELSE Undefined

\* encode(err, buffer): a string for a 404/403, null for any other error,
\* a Buffer for a payload; a falsy payload that is not a Buffer throws
\* (Buffer.concat / buffer.length on a non-Buffer)
encode(err, buffer) ==
    IF Truthy(errcode(err)) THEN Str(<<"E">> \o errcode(err).v)
    ELSE IF Truthy(err) THEN Null
    ELSE IF Truthy(buffer) /\ buffer.t = "object" THEN Buf(<<"O">> \o JSONStringify(buffer))
    ELSE IF Truthy(buffer) /\ buffer.t # "buffer" THEN Buf(<<"S">> \o buffer.v)
    ELSE IF buffer.t = "buffer" THEN Buf(<<"B">> \o buffer.v)
    ELSE Throw

\* decode(encoded): encoded is a Buffer
decode(encoded) ==
    LET hint == IF encoded.v = <<>> THEN "" ELSE encoded.v[1]
        buffer == IF encoded.v = <<>> THEN <<>> ELSE Tail(encoded.v)
    IN IF hint = "E" /\ (buffer = <<"4", "0", "4">> \/ buffer = <<"4", "0", "3">>)
       THEN LET n == IF buffer = <<"4", "0", "4">> THEN "404" ELSE "403"
            IN Err(n, n, "redis", "")
       ELSE IF hint \notin {"O", "S", "B"} THEN Err("", "", "", "Invalid cache value")
       ELSE IF hint = "O" THEN JSONParse(buffer)
       ELSE IF hint = "S" THEN Str(buffer)
       ELSE Buf(buffer)

\* buffer-equal: undefined (falsy) unless both arguments are Buffers
bufferEqual(a, b) ==
    IF a.t # "buffer" THEN FALSE
    ELSE IF b.t # "buffer" THEN FALSE
    ELSE a.v = b.v

\* --------------------------------------------------------- the environment
Invs == 1..NumInv

\* key = namespace + '-' + url
key(namespace, url) == namespace \o "-" \o url
KeyOf(url) == key(Namespace, url)
Keys == {KeyOf(Url)}

\* urlParse(url).hostname for the urls used here ("" when the url has no host)
hostname(url) ==
    CASE url = "http://a.com/x" -> "a.com"
      [] url = "http://a.com:8080/y" -> "a.com"
      [] url = "http://b.com/x" -> "b.com"
      [] OTHER -> ""

\* options.expires: a number, or an object from hostnames and 'default' to numbers
Flat(n) == [t |-> "number", n |-> n, m |-> <<>>]
PerHost(m) == [t |-> "object", n |-> 0, m |-> m]

\* options.expires[name]: 0 stands for undefined
Entry(m, name) == IF name \in DOMAIN m THEN m[name] ELSE 0

\* a default entry tried before the hostname
expiresDefaultFirst(opts, url) ==
    IF opts.t = "number" THEN opts.n
    ELSE IF Entry(opts.m, "default") # 0 THEN Entry(opts.m, "default")
    ELSE IF Entry(opts.m, hostname(url)) # 0 THEN Entry(opts.m, hostname(url))
    ELSE FallbackExpires

\* expires of race and readthrough:
\* options.expires[urlParse(url).hostname] || options.expires.default || 300
expires(opts, url) ==
    IF opts.t = "number" THEN opts.n
    ELSE IF Entry(opts.m, hostname(url)) # 0 THEN Entry(opts.m, hostname(url))
    ELSE IF Entry(opts.m, "default") # 0 THEN Entry(opts.m, "default")
    ELSE FallbackExpires

\* the options.expires of the decorator the machine runs
OptionsExpires == PerHost([n \in {"default", "a.com"} |-> IF n = "a.com" THEN 60 ELSE 300])

Expires(url) == expires(OptionsExpires, url)

Headers == [t |-> "headers", v |-> <<"h">>]
Outcome(e, b, h) == [err |-> e, buffer |-> b, headers |-> h]
NoOutcome == Outcome(Undefined, Undefined, Undefined)

\* what the wrapped get may call back with: a payload with headers, a 404 by
\* status, a 403 by code, or an unclassified failure
UpstreamOutcomes ==
    { Outcome(Null, Str(<<"h">>), Headers),
      Outcome(Err("404", "", "", ""), Undefined, Undefined),
      Outcome(Err("", "403", "", ""), Undefined, Undefined),
      Outcome(Err("500", "", "", "boom"), Undefined, Undefined) }

\* what the store may hold under the key before the first call: nothing, a
\* text entry, a negative entry, or a damaged entry (unknown tag, broken JSON)
InitialEntries ==
    { Null,
      Buf(<<"S", "h">>), Buf(<<"E", "4", "0", "4">>),
      Buf(<<"X", "h">>), Buf(<<"O", "{">>) }

NoLookup == [t |-> "nolookup", v |-> <<>>]
LookupPending == [t |-> "pending", v |-> <<>>]
LookupError == [t |-> "geterror", v |-> <<>>]

VARIABLES
    mode,           \* options.mode
    high_water,     \* client.command_queue_high_water
    store,          \* the redis server: key -> Buffer or Null
    command_queue,  \* client.command_queue: commands sent, replies pending (FIFO)
    lastOk,         \* history: invocation whose setex was applied last (0: none)
    pc,             \* per invocation: "idle" or "called"
    upstream,       \* per invocation: state of the wrapped get and its callback
    sent, cached, current,   \* race's locals
    calls,          \* history: times the caller's callback fired
    got,            \* history: arguments of the caller's callback
    upOut,          \* history: what the wrapped get called back with
    upCalls,        \* history: calls of the wrapped get
    gets, sets,     \* history: client.get / client.setex calls issued
    wval, wstate,   \* history: value of the setex issued, and its fate
    diag,           \* history: client.emit('error', ...) kinds
    lookup,         \* history: what client.get called back with
    lookupSrc,      \* history: lastOk when the lookup was answered
    satStart,       \* history: the invocation found the queue at high water
    probe           \* arguments and result of a pure function applied on its own

vars == <<mode, high_water, store, command_queue, lastOk, pc, upstream,
          sent, cached, current, calls, got, upOut, upCalls, gets, sets,
          wval, wstate, diag, lookup, lookupSrc, satStart, probe>>

\* no pure function is being applied
NoProbe == [fn |-> "none"]

\* cachingGet has returned the decorated get; nothing has been called yet
Decorated ==
    /\ mode \in {"readthrough", "race"}
    /\ high_water \in 1..MaxHighWater
    /\ store \in [Keys -> InitialEntries]
    /\ command_queue = <<>>
    /\ lastOk = 0
    /\ pc = [i \in Invs |-> "idle"]
    /\ upstream = [i \in Invs |-> "none"]
    /\ sent = [i \in Invs |-> FALSE]
    /\ cached = [i \in Invs |-> Null]
    /\ current = [i \in Invs |-> Null]
    /\ calls = [i \in Invs |-> 0]
    /\ got = [i \in Invs |-> NoOutcome]
    /\ upOut = [i \in Invs |-> NoOutcome]
    /\ upCalls = [i \in Invs |-> 0]
    /\ gets = [i \in Invs |-> 0]
    /\ sets = [i \in Invs |-> 0]
    /\ wval = [i \in Invs |-> Null]
    /\ wstate = [i \in Invs |-> "none"]
    /\ diag = [i \in Invs |-> {}]
    /\ lookup = [i \in Invs |-> NoLookup]
    /\ lookupSrc = [i \in Invs |-> 0]
    /\ satStart = [i \in Invs |-> FALSE]

Init == Decorated /\ probe = NoProbe

\* client.emit('error', err): the kind of error and err.key ("" when not set)
Diagnostic(kind, errkey) == <<kind, errkey>>

\* the guard of both strategies
admit(queue, hw) == Len(queue) < hw

GetCmd(i) == [op |-> "get", inv |-> i, key |-> KeyOf(Url), val |-> Null,
              ttl |-> 0, depth |-> Len(command_queue)]
\* client.setex(key, expires, value, ...)
setex(i, k, ttl, value, depth) == [op |-> "setex", inv |-> i, key |-> k, val |-> value,
                                   ttl |-> ttl, depth |-> depth]
SetexCmd(i, value) == setex(i, KeyOf(Url), Expires(Url), value, Len(command_queue))

\* callback(err, buffer, headers) of the caller
Deliver(i, o) ==
    /\ calls' = [calls EXCEPT ![i] = @ + 1]
    /\ got' = [got EXCEPT ![i] = o]

NoDeliver == UNCHANGED <<calls, got>>

\* a hit handed over as callback(data) whatever its kind
FromCacheAsError(data) == Outcome(data, Undefined, Undefined)

\* callback(data) for an Error read from the cache, callback(null, data) otherwise
FromCache(data) ==
    IF data.t = "error" THEN Outcome(data, Undefined, Undefined)
    ELSE Outcome(Null, data, Undefined)

\* the next invocation starts only once the previous one has (they are alike)
MayStart(i) == pc[i] = "idle" /\ (IF i = 1 THEN TRUE ELSE pc[i - 1] = "called")

\* ------------------------------------------------------------------- race
\* race(url, callback): the wrapped get is called, then the lookup if admitted
race(i) ==
    /\ mode = "race"
    /\ MayStart(i)
    /\ pc' = [pc EXCEPT ![i] = "called"]
    /\ upstream' = [upstream EXCEPT ![i] = "race"]
    /\ upCalls' = [upCalls EXCEPT ![i] = @ + 1]
    /\ sent' = [sent EXCEPT ![i] = FALSE]
    /\ cached' = [cached EXCEPT ![i] = Null]
    /\ current' = [current EXCEPT ![i] = Null]
    /\ IF admit(command_queue, high_water)
       THEN /\ command_queue' = Append(command_queue, GetCmd(i))
            /\ gets' = [gets EXCEPT ![i] = @ + 1]
            /\ lookup' = [lookup EXCEPT ![i] = LookupPending]
            /\ UNCHANGED <<diag, satStart>>
       ELSE /\ diag' = [diag EXCEPT ![i] = @ \cup {Diagnostic("highwater", "")}]
            /\ satStart' = [satStart EXCEPT ![i] = TRUE]
            /\ UNCHANGED <<command_queue, gets, lookup>>
    /\ UNCHANGED probe
    /\ UNCHANGED <<mode, high_water, store, lastOk, calls, got, upOut, sets,
                   wval, wstate, lookupSrc>>

\* finalize as soon as the wrapped get has produced an encoding
reconcileCurrentOnly(c, cur) == Truthy(cur)

\* finalize as soon as the lookup has produced something
reconcileCachedOnly(c, cur) == Truthy(c)

\* "if (cached && current) finalize()"
reconcile(c, cur) == Truthy(c) /\ Truthy(cur)

\* a finalize that writes only after a miss
finalizeOnMissOnly(c, cur) == c.t # "buffer"

\* a finalize that takes the miss sentinel for an equal entry
finalizeOnHitOnly(c, cur) == c.t = "buffer" /\ ~bufferEqual(c, cur)

\* finalize(): setex unless bufferEqual(cached, current)
finalize(c, cur) == ~bufferEqual(c, cur)

\* an upstream callback without the sent check
upstreamSendsAlways(isSent) == TRUE

\* "if (sent) return" of the upstream callback
upstreamSends(isSent) == ~isSent

\* a lookup callback that checks the entry only
lookupSendsIgnoringSent(isSent, encoded) == Truthy(encoded)

\* "if (sent || !encoded) return" of the lookup callback
lookupSends(isSent, encoded) == ~(isSent \/ ~Truthy(encoded))

\* the callback race passes to the wrapped get
raceUpstream(i, o) ==
    /\ upstream[i] = "race"
    /\ upstream' = [upstream EXCEPT ![i] = "done"]
    /\ upOut' = [upOut EXCEPT ![i] = o]
    /\ LET cur == encode(o.err, o.buffer)
       IN IF cur = Throw
          THEN \* the exception leaves the callback before anything is assigned
               /\ NoDeliver
               /\ UNCHANGED <<current, sent, command_queue, sets, wval, wstate>>
          ELSE /\ current' = [current EXCEPT ![i] = cur]
               /\ IF reconcile(cached[i], cur) /\ finalize(cached[i], cur)
                  THEN /\ command_queue' = Append(command_queue, SetexCmd(i, cur))
                       /\ sets' = [sets EXCEPT ![i] = @ + 1]
                       /\ wval' = [wval EXCEPT ![i] = cur]
                       /\ wstate' = [wstate EXCEPT ![i] = "pending"]
                  ELSE UNCHANGED <<command_queue, sets, wval, wstate>>
               /\ IF upstreamSends(sent[i])
                  THEN /\ sent' = [sent EXCEPT ![i] = TRUE]
                       /\ Deliver(i, o)
                  ELSE /\ NoDeliver
                       /\ UNCHANGED sent
    /\ UNCHANGED probe
    /\ UNCHANGED <<mode, high_water, store, lastOk, pc, cached, upCalls, gets,
                   diag, lookup, lookupSrc, satStart>>

\* the callback race passes to client.get, on the reply at the head of the queue
raceGet(ok) ==
    /\ command_queue # <<>>
    /\ Head(command_queue).op = "get"
    /\ mode = "race"
    /\ LET i == Head(command_queue).inv
           rest == Tail(command_queue)
           encoded == store[Head(command_queue).key]
           c1 == OrElse(encoded, Str(<<"5", "0", "0">>))
           write == reconcile(c1, current[i]) /\ finalize(c1, current[i])
           afterFin == IF write
                       THEN Append(rest, [SetexCmd(i, current[i]) EXCEPT !.depth = Len(rest)])
                       ELSE rest
           decoded == decode(c1)
           data == IF decoded = Throw THEN Undefined ELSE decoded
       IN IF ~ok
             THEN \* "if (err) return ...emit('error', err)"
                  /\ command_queue' = rest
                  /\ diag' = [diag EXCEPT ![i] = @ \cup {Diagnostic("get", Head(command_queue).key)}]
                  /\ lookup' = [lookup EXCEPT ![i] = LookupError]
                  /\ NoDeliver
                  /\ UNCHANGED <<cached, sent, sets, wval, wstate, lookupSrc>>
             ELSE /\ command_queue' = afterFin
                  /\ lookup' = [lookup EXCEPT ![i] = encoded]
                  /\ lookupSrc' = [lookupSrc EXCEPT ![i] = lastOk]
                  /\ IF write
                     THEN /\ sets' = [sets EXCEPT ![i] = @ + 1]
                          /\ wval' = [wval EXCEPT ![i] = current[i]]
                          /\ wstate' = [wstate EXCEPT ![i] = "pending"]
                     ELSE UNCHANGED <<sets, wval, wstate>>
                  /\ IF ~lookupSends(sent[i], encoded)
                     THEN /\ cached' = [cached EXCEPT ![i] = c1]
                          /\ NoDeliver
                          /\ UNCHANGED <<sent, diag>>
                     ELSE /\ cached' = [cached EXCEPT ![i] =
                                          IF decoded = Throw THEN Str(<<"5", "0", "0">>) ELSE c1]
                          /\ diag' = [diag EXCEPT ![i] =
                                          IF decoded = Throw THEN @ \cup {Diagnostic("decode", Head(command_queue).key)} ELSE @]
                          /\ IF Truthy(data)
                             THEN /\ sent' = [sent EXCEPT ![i] = TRUE]
                                  /\ Deliver(i, FromCache(data))
                             ELSE /\ NoDeliver
                                  /\ UNCHANGED sent
    /\ UNCHANGED probe
    /\ UNCHANGED <<mode, high_water, store, lastOk, pc, upstream, current, upOut,
                   upCalls, gets, satStart>>

\* ------------------------------------------------------------ readthrough
\* readthrough(url, callback): the lookup if admitted, else the wrapped get
\* with the caller's callback
readthrough(i) ==
    /\ mode = "readthrough"
    /\ MayStart(i)
    /\ pc' = [pc EXCEPT ![i] = "called"]
    /\ IF admit(command_queue, high_water)
       THEN /\ command_queue' = Append(command_queue, GetCmd(i))
            /\ gets' = [gets EXCEPT ![i] = @ + 1]
            /\ lookup' = [lookup EXCEPT ![i] = LookupPending]
            /\ UNCHANGED <<diag, satStart, upstream, upCalls>>
       ELSE /\ diag' = [diag EXCEPT ![i] = @ \cup {Diagnostic("highwater", "")}]
            /\ satStart' = [satStart EXCEPT ![i] = TRUE]
            /\ upstream' = [upstream EXCEPT ![i] = "direct"]
            /\ upCalls' = [upCalls EXCEPT ![i] = @ + 1]
            /\ UNCHANGED <<command_queue, gets, lookup>>
    /\ UNCHANGED probe
    /\ UNCHANGED <<mode, high_water, store, lastOk, sent, cached, current, calls,
                   got, upOut, sets, wval, wstate, lookupSrc>>

\* a lookup that never answers the caller
cacheHitNever(data) == FALSE

\* "if (data && (data instanceof Error)) ... else if (data) return callback(null, data)"
cacheHit(data) == Truthy(data)

\* the callback readthrough passes to client.get
readthroughGet(ok) ==
    /\ command_queue # <<>>
    /\ Head(command_queue).op = "get"
    /\ mode = "readthrough"
    /\ LET i == Head(command_queue).inv
           encoded == store[Head(command_queue).key]
           decoded == IF Truthy(encoded) THEN decode(encoded) ELSE Undefined
           data == IF decoded = Throw THEN Undefined ELSE decoded
       IN /\ command_queue' = Tail(command_queue)
          /\ IF ~ok
             THEN \* error on the get: the wrapped get is called with the caller's callback
                  /\ diag' = [diag EXCEPT ![i] = @ \cup {Diagnostic("get", Head(command_queue).key)}]
                  /\ lookup' = [lookup EXCEPT ![i] = LookupError]
                  /\ upstream' = [upstream EXCEPT ![i] = "direct"]
                  /\ upCalls' = [upCalls EXCEPT ![i] = @ + 1]
                  /\ NoDeliver
                  /\ UNCHANGED lookupSrc
             ELSE /\ lookup' = [lookup EXCEPT ![i] = encoded]
                  /\ lookupSrc' = [lookupSrc EXCEPT ![i] = lastOk]
                  /\ diag' = [diag EXCEPT ![i] =
                                  IF decoded = Throw THEN @ \cup {Diagnostic("decode", Head(command_queue).key)} ELSE @]
                  /\ IF cacheHit(data)
                     THEN /\ Deliver(i, FromCache(data))
                          /\ UNCHANGED <<upstream, upCalls>>
                     ELSE /\ upstream' = [upstream EXCEPT ![i] = "populate"]
                          /\ upCalls' = [upCalls EXCEPT ![i] = @ + 1]
                          /\ NoDeliver
    /\ UNCHANGED probe
    /\ UNCHANGED <<mode, high_water, store, lastOk, pc, sent, cached, current,
                   upOut, gets, sets, wval, wstate, satStart>>

\* every error returned without a setex
uncachedAnyError(err) == Truthy(err)

\* no early return for an unclassified error
uncachedNever(err) == FALSE

\* "if (err && !errcode(err)) return callback(err)"
uncached(err) == Truthy(err) /\ ~Truthy(errcode(err))

\* the callback readthrough passes to the wrapped get after a miss
readthroughUpstream(i, o) ==
    /\ upstream[i] = "populate"
    /\ upstream' = [upstream EXCEPT ![i] = "done"]
    /\ upOut' = [upOut EXCEPT ![i] = o]
    /\ IF uncached(o.err)
       THEN /\ Deliver(i, Outcome(o.err, Undefined, Undefined))
            /\ UNCHANGED <<command_queue, sets, wval, wstate>>
       ELSE /\ Deliver(i, o)
            /\ LET value == encode(o.err, o.buffer)
               IN IF value = Throw
                  THEN UNCHANGED <<command_queue, sets, wval, wstate>>
                  ELSE /\ command_queue' = Append(command_queue, SetexCmd(i, value))
                       /\ sets' = [sets EXCEPT ![i] = @ + 1]
                       /\ wval' = [wval EXCEPT ![i] = value]
                       /\ wstate' = [wstate EXCEPT ![i] = "pending"]
    /\ UNCHANGED probe
    /\ UNCHANGED <<mode, high_water, store, lastOk, pc, sent, cached, current,
                   upCalls, gets, diag, lookup, lookupSrc, satStart>>

\* the populating callback used on the error path too
directUpstreamPopulates(i, o) ==
    /\ upstream[i] = "direct"
    /\ upstream' = [upstream EXCEPT ![i] = "done"]
    /\ upOut' = [upOut EXCEPT ![i] = o]
    /\ Deliver(i, o)
    /\ IF Truthy(encode(o.err, o.buffer))
       THEN /\ command_queue' = Append(command_queue, SetexCmd(i, encode(o.err, o.buffer)))
            /\ sets' = [sets EXCEPT ![i] = @ + 1]
            /\ wval' = [wval EXCEPT ![i] = encode(o.err, o.buffer)]
            /\ wstate' = [wstate EXCEPT ![i] = "pending"]
       ELSE UNCHANGED <<command_queue, sets, wval, wstate>>
    /\ UNCHANGED <<mode, high_water, store, lastOk, pc, sent, cached, current,
                   upCalls, gets, diag, lookup, lookupSrc, satStart, probe>>

\* the caller's callback, handed to the wrapped get as it is
directUpstream(i, o) ==
    /\ upstream[i] = "direct"
    /\ upstream' = [upstream EXCEPT ![i] = "done"]
    /\ upOut' = [upOut EXCEPT ![i] = o]
    /\ Deliver(i, o)
    /\ UNCHANGED probe
    /\ UNCHANGED <<mode, high_water, store, command_queue, lastOk, pc, sent,
                   cached, current, upCalls, gets, sets, wval, wstate, diag,
                   lookup, lookupSrc, satStart>>

\* ------------------------------------------------------------------ setex
\* redis stores the bytes of the value; a get returns them as a Buffer
Stored(value) == Buf(value.v)

\* the reply to a setex and its callback: "if (!err) return; ... emit('error', err)"
setexReply(ok) ==
    /\ command_queue # <<>>
    /\ Head(command_queue).op = "setex"
    /\ LET c == Head(command_queue)
       IN /\ command_queue' = Tail(command_queue)
          /\ IF ok
             THEN /\ store' = [store EXCEPT ![c.key] = Stored(c.val)]
                  /\ lastOk' = c.inv
                  /\ wstate' = [wstate EXCEPT ![c.inv] = "ok"]
                  /\ UNCHANGED diag
             ELSE /\ diag' = [diag EXCEPT ![c.inv] = @ \cup {Diagnostic("setex", c.key)}]
                  /\ wstate' = [wstate EXCEPT ![c.inv] = "error"]
                  /\ UNCHANGED <<store, lastOk>>
    /\ UNCHANGED probe
    /\ UNCHANGED <<mode, high_water, pc, upstream, sent, cached, current, calls,
                   got, upOut, upCalls, gets, sets, wval, lookup, lookupSrc,
                   satStart>>

Next ==
    \/ \E i \in Invs : race(i)
    \/ \E i \in Invs : readthrough(i)
    \/ \E i \in Invs, o \in UpstreamOutcomes : raceUpstream(i, o)
    \/ \E i \in Invs, o \in UpstreamOutcomes : readthroughUpstream(i, o)
    \/ \E i \in Invs, o \in UpstreamOutcomes : directUpstream(i, o)
    \/ \E ok \in BOOLEAN : raceGet(ok)
    \/ \E ok \in BOOLEAN : readthroughGet(ok)
    \/ \E ok \in BOOLEAN : setexReply(ok)

Spec == Init /\ [][Next]_vars

\* the replies redis and the wrapped get owe are eventually delivered
FairSpec ==
    /\ Spec
    /\ WF_vars(\E ok \in BOOLEAN : raceGet(ok) \/ readthroughGet(ok) \/ setexReply(ok))
    /\ \A i \in Invs :
         WF_vars(\E o \in UpstreamOutcomes :
                    raceUpstream(i, o) \/ readthroughUpstream(i, o) \/ directUpstream(i, o))

\* ------------------------------------------------- the codec on its own
\* module.exports.encode / module.exports.decode applied to one outcome
RECURSIVE SeqsUpTo(_, _)
SeqsUpTo(alphabet, n) ==
    IF n = 0 THEN {<<>>}
    ELSE LET shorter == SeqsUpTo(alphabet, n - 1)
         IN shorter \cup {Append(q, c) : q \in shorter, c \in alphabet}

\* the machine at rest while a pure function is applied
Parked ==
    /\ Decorated
    /\ mode = "readthrough" /\ high_water = 1 /\ store = [k \in Keys |-> Null]

\* payloads: text, binary (empty included) and objects, up to MaxLen long
CodecPayloads ==
    {Str(q) : q \in SeqsUpTo({"h", "S", "4"}, MaxLen)}
        \cup {Buf(q) : q \in SeqsUpTo({"h", "S", "4"}, MaxLen)}
        \cup {Obj(q) : q \in SeqsUpTo({"1", "2", "3"}, MaxLen)}

\* failures: every combination of err.status and err.code
CodecErrors == {Err(st, co, "", "") : st \in {"", "404", "403", "500"},
                                      co \in {"", "404", "403", "500"}}

CodecInit ==
    /\ Parked
    /\ \/ \E b \in CodecPayloads :
            probe = [fn |-> "codec", stage |-> "outcome", err |-> Null, buffer |-> b,
                     encoded |-> Undefined, decoded |-> Undefined]
       \/ \E e \in CodecErrors :
            probe = [fn |-> "codec", stage |-> "outcome", err |-> e, buffer |-> Undefined,
                     encoded |-> Undefined, decoded |-> Undefined]

MachineVars == <<mode, high_water, store, command_queue, lastOk, pc, upstream,
                 sent, cached, current, calls, got, upOut, upCalls, gets, sets,
                 wval, wstate, diag, lookup, lookupSrc, satStart>>

\* encode(err, buffer)
codecEncode ==
    /\ probe.fn = "codec" /\ probe.stage = "outcome"
    /\ probe' = [probe EXCEPT !.stage = "encoded",
                              !.encoded = encode(probe.err, probe.buffer)]
    /\ UNCHANGED MachineVars

\* decode(encoded), for an entry encode returned
codecDecode ==
    /\ probe.fn = "codec" /\ probe.stage = "encoded"
    /\ probe.encoded # Throw /\ probe.encoded # Null
    /\ probe' = [probe EXCEPT !.stage = "decoded", !.decoded = decode(probe.encoded)]
    /\ UNCHANGED MachineVars

CodecNext == codecEncode \/ codecDecode

CodecSpec == CodecInit /\ [][CodecNext]_vars

\* --------------------------------------------------- expires on its own
\* the options.expires tried: flat numbers, and every per-hostname object over
\* a.com, b.com and default
TtlConfigs ==
    {Flat(n) : n \in {60, 120, DefaultExpires}}
        \cup {PerHost(m) : m \in UNION {[d -> {60, 300}] :
                                           d \in SUBSET {"a.com", "b.com", "default"}}}

TtlUrls == {"http://a.com/x", "http://a.com:8080/y", "http://b.com/x", "/x"}

TtlInit ==
    /\ Parked
    /\ \E o \in TtlConfigs, u \in TtlUrls :
         probe = [fn |-> "ttl", stage |-> "called", opts |-> o, url |-> u,
                  expires |-> 0, cmd |-> GetCmd(1)]

\* "var expires; if (typeof options.expires === 'number') ... else ..."
ttlResolve ==
    /\ probe.fn = "ttl" /\ probe.stage = "called"
    /\ probe' = [probe EXCEPT !.stage = "resolved",
                              !.expires = expires(probe.opts, probe.url)]
    /\ UNCHANGED MachineVars

\* client.setex(key, expires, ...) of the same invocation
ttlSetex ==
    /\ probe.fn = "ttl" /\ probe.stage = "resolved"
    /\ probe' = [probe EXCEPT !.stage = "written",
                              !.cmd = setex(1, key(Namespace, probe.url), probe.expires,
                                            Str(<<"E", "4", "0", "4">>), 0)]
    /\ UNCHANGED MachineVars

TtlNext == ttlResolve \/ ttlSetex

TtlSpec == TtlInit /\ [][TtlNext]_vars

\* ------------------------------------------------------- key on its own
\* two decorators made by cachingGet with their own namespaces, one store
KeyNamespaces == {"TL", "TL-a", "T"}
KeyUrls == {"x", "a-x", "L-x", "/x"}

KeyInit ==
    /\ Parked
    /\ \E n1 \in KeyNamespaces, n2 \in KeyNamespaces, u1 \in KeyUrls, u2 \in KeyUrls :
         probe = [fn |-> "key", stage |-> "called", n1 |-> n1, u1 |-> u1,
                  n2 |-> n2, u2 |-> u2, k1 |-> "", k2 |-> ""]

\* "var key = namespace + '-' + url" in a call of each decorator
keyCompute ==
    /\ probe.fn = "key" /\ probe.stage = "called"
    /\ probe' = [probe EXCEPT !.stage = "keyed",
                              !.k1 = key(probe.n1, probe.u1),
                              !.k2 = key(probe.n2, probe.u2)]
    /\ UNCHANGED MachineVars

KeyNext == keyCompute

KeySpec == KeyInit /\ [][KeyNext]_vars

\* ------------------------------------------------------------ properties
Key == KeyOf(Url)

\* the encoding of what the wrapped get called back with for invocation i
UpEncoding(i) == encode(upOut[i].err, upOut[i].buffer)

\* the lookup of invocation i came back with an entry / with an entry that
\* decodes to an outcome the strategies can hand over
Hit(i) == lookup[i].t = "buffer"
InvalidEncoding(d) == d.t = "error" /\ d.v[4] = "Invalid cache value"
Decodable(e) ==
    /\ e.t = "buffer"
    /\ decode(e) # Throw
    /\ ~InvalidEncoding(decode(e))
    /\ Truthy(decode(e))

RaceFirstWinsNow ==
    mode = "race" =>
        \A i \in Invs :
            /\ (upstream[i] = "race" /\ Decodable(lookup[i])) =>
                   (calls[i] = 1 /\ got[i] = FromCache(decode(lookup[i])))
            /\ (upstream[i] = "done" /\ lookup[i] \in {LookupPending, NoLookup}) =>
                   (calls[i] = 1 /\ got[i] = upOut[i])

RaceAnswerKept ==
    mode = "race" =>
        \A i \in Invs : calls[i] = 1 => (calls'[i] = 1 /\ got'[i] = got[i])

RecCase(i) ==
    /\ mode = "race" /\ upstream[i] = "done" /\ Hit(i)
    /\ Truthy(UpEncoding(i)) /\ Stored(UpEncoding(i)) # lookup[i]

RaceReconciles ==
    \A i \in Invs :
        RecCase(i) =>
            /\ wstate[i] # "none"
            /\ wval[i] = UpEncoding(i)
            /\ (wstate[i] = "ok" /\ lastOk = i) => store[Key] = Stored(UpEncoding(i))

\* the caller was answered from the stale entry, then the store was corrected
RaceReconcilesWitness ==
    \E i \in Invs : /\ RecCase(i) /\ Decodable(lookup[i])
                    /\ got[i] = FromCache(decode(lookup[i]))
                    /\ wstate[i] = "ok" /\ store[Key] = Stored(UpEncoding(i))

\* C4: in race, when both branches are done and the entry read is
\* byte-identical to the encoding of the wrapped get's outcome, the
\* invocation issues no setex.
RaceSkipsIdentical ==
    \A i \in Invs :
        (/\ mode = "race" /\ upstream[i] = "done" /\ Hit(i)
         /\ Truthy(UpEncoding(i)) /\ Stored(UpEncoding(i)) = lookup[i]) => sets[i] = 0

NeverIssuedAtHighWater ==
    \A k \in 1..Len(command_queue) : command_queue[k].depth < high_water

\* C7: in readthrough, when a call's setex has been applied and a later
\* call's lookup reads that entry, the later call makes no upstream call and
\* hands over the same payload; the two calls make at most one upstream call.
ReadsWriteOf(j, i) ==
    i # j /\ wstate[i] = "ok" /\ lookupSrc[j] = i /\ Hit(j)

ReadthroughIdempotent ==
    mode = "readthrough" =>
        \A i \in Invs, j \in Invs :
            ReadsWriteOf(j, i) =>
                /\ upCalls[i] + upCalls[j] <= 1
                /\ calls[j] = 1
                /\ got[j].buffer = got[i].buffer
                /\ got[i].buffer = Str(<<"h">>) => wval[i] = Buf(<<"S", "h">>)

ReadthroughIdempotentWitness ==
    \E i \in Invs, j \in Invs :
        /\ mode = "readthrough" /\ ReadsWriteOf(j, i)
        /\ upCalls[i] = 1 /\ got[j].buffer = Str(<<"h">>)

\* C8: in readthrough, a 404 or 403 from the wrapped get after a miss is
\* handed to the caller, E404 / E403 is written under the key, and a call
\* whose lookup reads that entry hands over an error with the same code
\* without an upstream call.
NegativeMiss(i) ==
    /\ mode = "readthrough" /\ upstream[i] = "done"
    /\ lookup[i].t \in {"buffer", "null"}
    /\ Truthy(errcode(upOut[i].err))

ReadthroughNegativeCaching ==
    \A i \in Invs :
        NegativeMiss(i) =>
            /\ calls[i] = 1 /\ got[i] = upOut[i]
            /\ wval[i] = Str(<<"E">> \o errcode(upOut[i].err).v)
            /\ (wstate[i] = "ok" /\ lastOk = i) =>
                   store[Key] = Buf(<<"E">> \o errcode(upOut[i].err).v)
            /\ \A j \in Invs :
                   ReadsWriteOf(j, i) =>
                       /\ upCalls[j] = 0 /\ calls[j] = 1
                       /\ got[j].err.t = "error"
                       /\ errcode(got[j].err) = errcode(upOut[i].err)

ReadthroughNegativeCachingWitness ==
    \E i \in Invs, j \in Invs :
        /\ NegativeMiss(i) /\ ReadsWriteOf(j, i)
        /\ upOut[i].err.v[2] = "403" /\ got[j].err.v[1] = "403"

\* C9: a failure of the wrapped get that is neither a 404 nor a 403 encodes
\* to null, and the invocation that received it issues no setex, under
\* either strategy and whatever its lookup returned.
Opaque(o) == Truthy(o.err) /\ ~Truthy(errcode(o.err))

NeverCachesOpaque ==
    \A i \in Invs :
        (upstream[i] = "done" /\ Opaque(upOut[i])) =>
            /\ UpEncoding(i) = Null
            /\ sets[i] = 0 /\ wstate[i] = "none" /\ lastOk # i

NeverCachesOpaqueWitness ==
    \E i \in Invs : /\ mode = "race" /\ upstream[i] = "done" /\ Opaque(upOut[i])
                    /\ Hit(i) /\ got[i] = upOut[i]

\* C10: every invocation whose replies arrive is answered, and an answer
\* that is not the decoding of a usable cache entry is the wrapped get's
\* outcome unchanged.
AnsweredFromCache(i) == Decodable(lookup[i]) /\ got[i] = FromCache(decode(lookup[i]))

DegradedAnswerIsUpstream ==
    \A i \in Invs : (calls[i] >= 1 /\ ~AnsweredFromCache(i)) => got[i] = upOut[i]

GracefulDegradation ==
    /\ []DegradedAnswerIsUpstream
    /\ \A i \in Invs : (pc[i] = "called") ~> (calls[i] >= 1)

\* C11: an entry that fails to decode (unknown tag, an E entry that is not
\* E404 / E403, broken JSON) is reported as a decode diagnostic and is never
\* what the caller receives: the caller receives the wrapped get's outcome,
\* and readthrough calls the wrapped get.
Corrupt(e) ==
    /\ e.t = "buffer"
    /\ (decode(e) = Throw \/ InvalidEncoding(decode(e)))

CorruptEntryIsMiss ==
    \A i \in Invs :
        Corrupt(lookup[i]) =>
            /\ Diagnostic("decode", Key) \in diag[i]
            /\ calls[i] >= 1 => got[i] = upOut[i]
            /\ mode = "readthrough" => upCalls[i] = 1

\* C12: a call answered from an entry that an earlier call wrote receives
\* exactly what that earlier call received from the wrapped get: same error,
\* payload and headers.
CacheHitTransparent ==
    \A i \in Invs, j \in Invs :
        (ReadsWriteOf(j, i) /\ AnsweredFromCache(j)) => got[j] = upOut[i]

\* C13: every representable outcome - a payload that is an object, text or
\* binary (empty included), a 404, a 403 - encodes to an entry tagged O, S, B,
\* E, and decoding that entry gives an outcome of the same kind with the same
\* payload or status code.
Representable(err, buffer) ==
    IF Truthy(err) THEN Truthy(errcode(err))
    ELSE buffer.t \in {"object", "string", "buffer"}

TagFor(err, buffer) ==
    IF Truthy(err) THEN "E"
    ELSE IF buffer.t = "object" THEN "O"
    ELSE IF buffer.t = "string" THEN "S"
    ELSE "B"

CodeName(c) == IF c.v = <<"4", "0", "4">> THEN "404" ELSE "403"

CodecRoundTrip ==
    (probe.fn = "codec" /\ Representable(probe.err, probe.buffer)) =>
        /\ probe.stage # "outcome" =>
               /\ probe.encoded.t \in {"string", "buffer"}
               /\ probe.encoded.v # <<>>
               /\ probe.encoded.v[1] = TagFor(probe.err, probe.buffer)
        /\ probe.stage = "decoded" =>
               IF Truthy(probe.err)
               THEN /\ probe.decoded.t = "error"
                    /\ probe.decoded.v[1] = CodeName(errcode(probe.err))
               ELSE probe.decoded = probe.buffer

\* C14: a flat options.expires is the expiry of every url; with a per-hostname
\* object the expiry is the entry of the url's hostname if there is one, else
\* the default entry if there is one, else 300; and that expiry is the one
\* passed to setex.  {default: 300, a.com: 60} gives 60 for a.com, 300 for b.com.
TtlRule(opts, url) ==
    IF opts.t = "number" THEN opts.n
    ELSE IF hostname(url) \in DOMAIN opts.m THEN opts.m[hostname(url)]
    ELSE IF "default" \in DOMAIN opts.m THEN opts.m["default"]
    ELSE 300

TtlResolution ==
    probe.fn = "ttl" =>
        /\ probe.stage # "called" => probe.expires = TtlRule(probe.opts, probe.url)
        /\ (probe.stage # "called" /\ probe.opts = OptionsExpires) =>
               probe.expires = (IF hostname(probe.url) = "a.com" THEN 60 ELSE 300)
        /\ (probe.stage # "called" /\ probe.opts = Flat(120)) => probe.expires = 120
        /\ probe.stage = "written" =>
               probe.cmd.op = "setex" /\ probe.cmd.ttl = TtlRule(probe.opts, probe.url)

\* the example: {default: 300, a.com: 60} resolved for b.com and written
TtlResolutionWitness ==
    /\ probe.fn = "ttl" /\ probe.stage = "written"
    /\ probe.opts = OptionsExpires /\ probe.url = "http://b.com/x"
    /\ probe.cmd.ttl = 300

\* C15: two decorators with different namespaces never compute the same key,
\* whatever the urls.
NamespacesIsolated ==
    (probe.fn = "key" /\ probe.stage = "keyed" /\ probe.n1 # probe.n2) =>
        probe.k1 # probe.k2

\* the setex commands of invocation i that await their reply
PendingSetex(i) ==
    {k \in 1..Len(command_queue) :
        command_queue[k].op = "setex" /\ command_queue[k].inv = i}

ReadthroughOrdering ==
    mode = "readthrough" =>
        \A i \in Invs :
            /\ lookup[i] = LookupPending => (upCalls[i] = 0 /\ upstream[i] = "none")
            /\ Decodable(lookup[i]) => (upCalls[i] = 0 /\ calls[i] = 1)
            /\ sets[i] >= 1 => (calls[i] = 1 /\ got[i] = upOut[i])
            /\ wstate[i] = "error" =>
                   (got[i] = upOut[i] /\ Diagnostic("setex", Key) \in diag[i])
            /\ wstate[i] = "ok" =>
                   (got[i] = upOut[i] /\ Diagnostic("setex", Key) \notin diag[i])

\* the caller was answered from the wrapped get and the setex then failed
ReadthroughOrderingWitness ==
    \E i \in Invs :
        /\ mode = "readthrough"
        /\ lookup[i] = Null /\ upCalls[i] = 1
        /\ wstate[i] = "error" /\ calls[i] = 1 /\ got[i] = upOut[i]

\* C18: an invocation issues at most one setex; in race it is issued only
\* when both branches are done, the wrapped get's outcome has an encoding and
\* the lookup returned an entry or a miss.
AtMostOneWrite ==
    \A i \in Invs :
        /\ sets[i] <= 1
        /\ Cardinality(PendingSetex(i)) <= 1
        /\ (mode = "race" /\ sets[i] >= 1) =>
               /\ upstream[i] = "done" /\ Truthy(UpEncoding(i))
               /\ lookup[i].t \in {"buffer", "null"}

AtMostOneWriteWitness ==
    \E i \in Invs : /\ mode = "race" /\ sets[i] = 1 /\ wstate[i] = "ok"
                    /\ Hit(i) /\ Decodable(lookup[i])

\* C19: every value sent in a setex is the encoding (tag O, S, B or E) of what
\* the wrapped get called back with in that invocation, never null and never
\* the miss sentinel; so the store holds what it held at first or such an
\* encoding.
Sentinel == Str(<<"5", "0", "0">>)

Encodings == {Stored(encode(o.err, o.buffer)) :
                 o \in {u \in UpstreamOutcomes : Truthy(encode(u.err, u.buffer))}}

StoreIntegrity ==
    /\ \A k \in 1..Len(command_queue) :
          command_queue[k].op = "setex" =>
              /\ upstream[command_queue[k].inv] = "done"
              /\ command_queue[k].val = UpEncoding(command_queue[k].inv)
              /\ Truthy(command_queue[k].val)
              /\ command_queue[k].val # Sentinel
              /\ command_queue[k].val.v[1] \in {"O", "S", "B", "E"}
              /\ command_queue[k].key = Key
    /\ store[Key] \in InitialEntries \cup Encodings
    /\ lastOk # 0 => store[Key] = Stored(UpEncoding(lastOk))

\* an entry read from the cache was replaced by a different encoding
StoreIntegrityWitness ==
    \E i \in Invs : /\ lastOk = i /\ Hit(i) /\ store[Key] # lookup[i]
                    /\ store[Key] = Buf(<<"E", "4", "0", "3">>)

====
